---------------------------- MODULE Spec2Model ----------------------------
(***************************************************************************)
(* A model of graphrag/index/storage/file_pipeline_storage.py:             *)
(*   - FilePipelineStorage.find, a generator over the files that nine      *)
(*     listPath calls on one SMB session return (SpecFind);                *)
(*   - FilePipelineStorage.getText, one retrieval on one SMB session       *)
(*     followed by the extension dispatch (SpecGetText);                   *)
(*   - the local store: join_path, set, has, delete (SpecStore).           *)
(* The SMB library, the file system and the consumer of the generator are  *)
(* the environment: their answers are nondeterministic choices.            *)
(***************************************************************************)
EXTENDS Integers, Sequences, FiniteSets, TLC

VARIABLES
    \* ---- find (lines 118-172) ----
    f_pc,          \* position of the generator
    f_max_count,   \* parameter max_count
    f_progress,    \* TRUE iff a progress callback was supplied
    f_creds,       \* TRUE iff userid/password/share_directory/file_server/file_path were supplied
    f_conn,        \* the SMBConnection: "none", "open", "closed"
    f_k,           \* index into patterns of the next listPath call
    f_items,       \* local items
    f_all_files,   \* local all_files
    f_num_loaded,  \* local num_loaded
    f_num_total,   \* local num_total
    f_results,     \* history: per pattern, whether listPath returned or raised, and the files it returned
    f_yielded,     \* history: the elements handed to the consumer
    f_reports,     \* history: the Progress values passed to the callback
    \* ---- getText (lines 189-222) ----
    t_pc,          \* position of the coroutine
    t_key,         \* parameter key, a sequence of characters
    t_creds,       \* TRUE iff the remote parameters were supplied
    t_conn,        \* the SMBConnection: "none", "open", "closed"
    t_file,        \* the io.BytesIO buffer: [data, pos]
    t_retrieved,   \* history: TRUE iff retrieveFile returned
    t_response,    \* local response
    t_error,       \* the exception the call ended with, "" when none
    \* ---- local store (lines 241-277) ----
    s_files,       \* the file system: resolved path -> content, for the files that exist
    s_dirs,        \* the file system: the directories that exist
    s_op,          \* the last store operation
    s_key,         \* its key
    s_path,        \* the location (resolved path) it acted on
    s_result,      \* its result
    s_stores,      \* the roots of the stores constructed so far
    s_store,       \* the root of the store the last operation was called on
    s_detail,      \* the other arguments of the last operation and what it gave back
    \* ---- tasks that run delete and clear concurrently (lines 255-266) ----
    k_pc,          \* per task: the position in delete
    k_key,         \* per task: the key of its delete
    \* ---- get_text_from_word (lines 78-83) ----
    w_pc,          \* position of the call
    w_paragraphs,  \* document.paragraphs: the paragraph texts, in document order
    w_output,      \* the returned text
    \* ---- get_text_from_powerpoint (lines 66-74) ----
    p_pc,          \* position of the call
    p_slides,      \* prs.slides: per slide its shapes, each [has_text_frame, text]
    p_output       \* the returned text

findVars == <<f_pc, f_max_count, f_progress, f_creds, f_conn, f_k, f_items, f_all_files,
              f_num_loaded, f_num_total, f_results, f_yielded, f_reports>>
textVars == <<t_pc, t_key, t_creds, t_conn, t_file, t_retrieved, t_response, t_error>>
storeVars == <<s_files, s_dirs, s_op, s_key, s_path, s_result, s_stores, s_store, s_detail>>
taskVars == <<k_pc, k_key>>
wordVars == <<w_pc, w_paragraphs, w_output>>
pptVars == <<p_pc, p_slides, p_output>>
vars == <<findVars, textVars, storeVars, taskVars, wordVars, pptVars>>

----------------------------------------------------------------------------
(* Bounds of the environment *)

\* a listPath call returns at most this many files
MaxListing == 2
\* the remote directory holds at most this many matching files
MaxFiles == 2
\* the largest max_count a caller passes
MaxCountArg == 3
\* a retrieved file holds at most this many bytes
MaxContent == 2

\* the stems of the remote file names
Stems == {"a", "b"}

Min(a, b) == IF a <= b THEN a ELSE b

\* all sequences over S of length at most n
RECURSIVE SeqsUpTo(_, _)
SeqsUpTo(S, n) ==
    IF n <= 0 THEN {<<>>}
    ELSE LET shorter == SeqsUpTo(S, n - 1)
         IN  shorter \cup {Append(s, x) : s \in {t \in shorter : Len(t) = n - 1}, x \in S}

----------------------------------------------------------------------------
(* find *)

\* the patterns with the first two exchanged
patterns_PdfFirst == <<"pdf", "docx", "xlsx", "xlsm", "pptx", "txt", "html", "md", "csv">>

\* line 152: patterns; "*.docx" is written by its extension
patterns == <<"docx", "pdf", "xlsx", "xlsm", "pptx", "txt", "html", "md", "csv">>

\* lines 286-293: _create_progress_status
\* Progress(total_items, completed_items); the description's two counts are kept
create_progress_status(num_loaded, num_filtered, num_total) ==
    [total_items |-> num_total,
     completed_items |-> num_loaded + num_filtered,
     loaded |-> num_loaded,
     filtered |-> num_filtered]

\* what conn.listPath(share_directory, file_path, pattern) can return: SharedFile
\* objects whose filename matches the pattern
Listings(pattern, room) ==
    {[i \in 1..Len(s) |-> [filename |-> <<s[i], pattern>>]] :
        s \in SeqsUpTo(Stems, Min(MaxListing, room))}

FindInit ==
    /\ f_pc = "idle"
    /\ f_max_count = -1
    /\ f_progress = FALSE
    /\ f_creds = FALSE
    /\ f_conn = "none"
    /\ f_k = 1
    /\ f_items = <<>>
    /\ f_all_files = <<>>
    /\ f_num_loaded = 0
    /\ f_num_total = 0
    /\ f_results = [i \in 1..Len(patterns) |-> [status |-> "unlisted", files |-> <<>>]]
    /\ f_yielded = <<>>
    /\ f_reports = <<>>

\* lines 118-130: the call makes the generator; no line of the body has run
FindCall ==
    /\ f_pc = "idle"
    /\ \E mc \in -1..MaxCountArg, pr \in BOOLEAN, cr \in BOOLEAN :
        /\ f_max_count' = mc
        /\ f_progress' = pr
        /\ f_creds' = cr
    /\ f_pc' = "created"
    /\ UNCHANGED <<f_conn, f_k, f_items, f_all_files, f_num_loaded, f_num_total,
                   f_results, f_yielded, f_reports>>
    /\ UNCHANGED <<textVars, storeVars, taskVars, wordVars, pptVars>>

\* lines 132-150: the first next() runs the body to conn.connect, whatever the
\* parameters are; connect returns or raises
FindConnect ==
    /\ f_pc = "created"
    /\ \/ /\ f_conn' = "open"
          /\ f_pc' = "list"
       \/ /\ f_conn' = "none"
          /\ f_pc' = "raised"
    /\ UNCHANGED <<f_max_count, f_progress, f_creds, f_k, f_items, f_all_files,
                   f_num_loaded, f_num_total, f_results, f_yielded, f_reports>>
    /\ UNCHANGED <<textVars, storeVars, taskVars, wordVars, pptVars>>

\* where the generator goes after the try statement of lines 155-160
AfterListing == "collected"

\* lines 156-158: one pass of the for loop, listPath returns
FindListPath ==
    /\ f_pc = "list"
    /\ f_k <= Len(patterns)
    /\ \E files \in Listings(patterns[f_k], MaxFiles - Len(f_items)) :
        /\ f_items' = f_items \o files
        /\ f_results' = [f_results EXCEPT ![f_k] = [status |-> "returned", files |-> files]]
    /\ f_k' = f_k + 1
    /\ f_pc' = IF f_k = Len(patterns) THEN AfterListing ELSE "list"
    /\ UNCHANGED <<f_max_count, f_progress, f_creds, f_conn, f_all_files,
                   f_num_loaded, f_num_total, f_yielded, f_reports>>
    /\ UNCHANGED <<textVars, storeVars, taskVars, wordVars, pptVars>>

\* the position a raised listPath leaves the generator at
ListFailPc_Propagate == "raised"

\* lines 159-160: except Exception encloses the whole for loop
ListFailPc == AfterListing

\* lines 157, 159-160: listPath raises; the handler prints and the loop is over
FindListFail ==
    /\ f_pc = "list"
    /\ f_k <= Len(patterns)
    /\ f_results' = [f_results EXCEPT ![f_k] = [status |-> "raised", files |-> <<>>]]
    /\ f_pc' = ListFailPc
    /\ UNCHANGED <<f_max_count, f_progress, f_creds, f_conn, f_k, f_items, f_all_files,
                   f_num_loaded, f_num_total, f_yielded, f_reports>>
    /\ UNCHANGED <<textVars, storeVars, taskVars, wordVars, pptVars>>

\* the connection state a skipped close leaves
ConnAfterCollect_NoClose == "open"

\* line 162: conn.close()
ConnAfterCollect == "closed"

\* lines 161-165
FindClose ==
    /\ f_pc = "collected"
    /\ f_all_files' = [i \in 1..Len(f_items) |-> f_items[i].filename]
    /\ f_conn' = ConnAfterCollect
    /\ f_num_loaded' = 0
    /\ f_num_total' = Len(f_all_files')
    /\ f_pc' = "loop"
    /\ UNCHANGED <<f_max_count, f_progress, f_creds, f_k, f_items,
                   f_results, f_yielded, f_reports>>
    /\ UNCHANGED <<textVars, storeVars, taskVars, wordVars, pptVars>>

\* line 167: the metadata {} of an element
EmptyDict == <<>>

\* the number of elements the for loop of line 166 has taken from all_files
Taken == Len(f_yielded)

\* lines 166-167: the loop takes the next file and yields it, or is exhausted
FindYield ==
    /\ f_pc = "loop"
    /\ \/ /\ Taken < Len(f_all_files)
          /\ f_yielded' = Append(f_yielded, <<f_all_files[Taken + 1], EmptyDict>>)
          /\ f_pc' = "suspended"
       \/ /\ Taken >= Len(f_all_files)
          /\ f_yielded' = f_yielded
          /\ f_pc' = "done"
    /\ UNCHANGED <<f_max_count, f_progress, f_creds, f_conn, f_k, f_items, f_all_files,
                   f_num_loaded, f_num_total, f_results, f_reports>>
    /\ UNCHANGED <<textVars, storeVars, taskVars, wordVars, pptVars>>

\* a break that ignores max_count <= 0
BreakNow_NoSign(max_count, num_loaded) == num_loaded >= max_count

\* line 169
BreakNow(max_count, num_loaded) == max_count > 0 /\ num_loaded >= max_count

\* lines 168-172: the consumer asks for the next element
FindResume ==
    /\ f_pc = "suspended"
    /\ f_num_loaded' = f_num_loaded + 1
    /\ IF BreakNow(f_max_count, f_num_loaded')
       THEN /\ f_pc' = "done"
            /\ f_reports' = f_reports
       ELSE /\ f_pc' = "loop"
            /\ f_reports' = IF f_progress
                            THEN Append(f_reports,
                                        create_progress_status(f_num_loaded', 0, f_num_total))
                            ELSE f_reports
    /\ UNCHANGED <<f_max_count, f_progress, f_creds, f_conn, f_k, f_items, f_all_files,
                   f_num_total, f_results, f_yielded>>
    /\ UNCHANGED <<textVars, storeVars, taskVars, wordVars, pptVars>>

\* the consumer drops the generator before or between elements: no line runs
\* (the body has no finally clause)
FindAbandon ==
    /\ f_pc \in {"created", "suspended"}
    /\ f_pc' = "abandoned"
    /\ UNCHANGED <<f_max_count, f_progress, f_creds, f_conn, f_k, f_items, f_all_files,
                   f_num_loaded, f_num_total, f_results, f_yielded, f_reports>>
    /\ UNCHANGED <<textVars, storeVars, taskVars, wordVars, pptVars>>

FindNext ==
    \/ FindCall
    \/ FindConnect
    \/ FindListPath
    \/ FindListFail
    \/ FindClose
    \/ FindYield
    \/ FindResume
    \/ FindAbandon


----------------------------------------------------------------------------
(* getText *)

\* the keys a caller passes, as sequences of characters
Keys ==
    { <<"a", ".", "p", "d", "f">>,
      <<"A", ".", "P", "D", "F">>,
      <<"a", ".", "d", "o", "c", "x">>,
      <<"a", ".", "x", "l", "s", "x">>,
      <<"a", ".", "x", "l", "s", "m">>,
      <<"a", ".", "p", "p", "t", "x">>,
      <<"a", ".", "t", "x", "t">>,
      <<"a", ".", "h", "t", "m", "l">>,
      <<"a", ".", "m", "d">>,
      <<"a", ".", "c", "s", "v">>,
      <<"a", ".", "z", "i", "p">>,
      <<"a">>,
      <<".", "m", "d">>,
      <<"a", ".", "m", "d", "/", "c">>,
      <<"a", ".", "z", ".", "m", "d">> }

\* the contents retrieveFile can write into the buffer
Contents == SeqsUpTo({"x", "y"}, MaxContent)

\* the index of the last occurrence of c in s, 0 when there is none (str.rfind)
RECURSIVE rfind(_, _)
rfind(s, c) ==
    IF Len(s) = 0 THEN 0
    ELSE IF s[Len(s)] = c THEN Len(s)
    ELSE rfind(SubSeq(s, 1, Len(s) - 1), c)

\* line 212: os.path.splitext(key)[1] (posixpath): the text from the last dot
\* of the last path component, unless only dots precede it in that component
splitext_ext(p) ==
    LET sepIndex == rfind(p, "/")
        dotIndex == rfind(p, ".")
    IN  IF dotIndex > sepIndex
           /\ \E i \in (sepIndex + 1)..(dotIndex - 1) : p[i] # "."
        THEN SubSeq(p, dotIndex, Len(p))
        ELSE <<>>

\* str.lower on one character
LowerChar(c) ==
    CASE c = "A" -> "a"
      [] c = "P" -> "p"
      [] c = "D" -> "d"
      [] c = "F" -> "f"
      [] OTHER -> c

\* lines 212-213: ext = ext[1:].lower()
ExtOf(key) ==
    LET ext == splitext_ext(key)
        cut == SubSeq(ext, 2, Len(ext))
    IN  [i \in 1..Len(cut) |-> LowerChar(cut[i])]

\* lines 106-116: func_dict, a name bound in the class body
func_dict ==
    [e \in { <<"p", "d", "f">>, <<"d", "o", "c", "x">>, <<"x", "l", "s", "x">>,
             <<"x", "l", "s", "m">>, <<"p", "p", "t", "x">>, <<"t", "x", "t">>,
             <<"h", "t", "m", "l">>, <<"m", "d">>, <<"c", "s", "v">> } |->
        CASE e = <<"p", "d", "f">> -> "get_text_from_pdf"
          [] e = <<"d", "o", "c", "x">> -> "get_text_from_word"
          [] e \in {<<"x", "l", "s", "x">>, <<"x", "l", "s", "m">>} -> "get_text_from_excel"
          [] e = <<"p", "p", "t", "x">> -> "get_text_from_powerpoint"
          [] OTHER -> "get_text_from_binary"]

\* lines 6-30, 33, 275, 280, 286: the names bound at module level
ModuleNames ==
    {"logging", "os", "re", "shutil", "Iterator", "Path", "Any", "cast", "aiofiles",
     "remove", "exists", "Progress", "ProgressReporter", "PipelineStorage", "requests",
     "platform", "SMBConnection", "docx", "openpyxl", "pptx", "io", "log",
     "FilePipelineStorage", "join_path", "create_file_storage", "_create_progress_status"}

\* lines 194-214: the names getText binds itself
GetTextLocals ==
    {"self", "key", "as_bytes", "encoding", "userid", "password", "share_directory",
     "file_server", "file_path", "response", "SMBUSER", "SMBPASS", "RMHOST", "RMADDR",
     "RMPORT", "conn", "_", "ext", "file", "func"}

\* a bare name in a function body is looked up in the function's locals and
\* then in the module's globals; names bound in a class body are attributes of
\* the class and are not in scope in its methods
Resolves(name, locals) == name \in locals \cup ModuleNames

\* lines 46-103: an extraction rule applied to the buffer. The parsers are
\* libraries: the text of a rule is written as the rule and the bytes it reads.
\* get_text_from_binary rewinds the buffer itself (line 52); get_text_from_pdf
\* uses the name extract_text_to_fp (line 62)
ApplyRule(rule, file) ==
    LET from == IF rule = "get_text_from_binary" THEN 0 ELSE file.pos
    IN  IF rule = "get_text_from_pdf" /\ ~Resolves("extract_text_to_fp", {"file", "output"})
        THEN [raised |-> "NameError", text |-> <<>>]
        ELSE [raised |-> "",
              text |-> <<rule, SubSeq(file.data, from + 1, Len(file.data))>>]

\* line 194: response = ""
EmptyResponse == <<>>

TextInit ==
    /\ t_pc = "idle"
    /\ t_key = <<>>
    /\ t_creds = FALSE
    /\ t_conn = "none"
    /\ t_file = [data |-> <<>>, pos |-> 0]
    /\ t_retrieved = FALSE
    /\ t_response = EmptyResponse
    /\ t_error = ""

\* lines 189-208: the call; the SMBConnection object is made, not yet connected
TextCall ==
    /\ t_pc = "idle"
    /\ \E key \in Keys, cr \in BOOLEAN :
        /\ t_key' = key
        /\ t_creds' = cr
    /\ t_response' = EmptyResponse
    /\ t_pc' = "called"
    /\ UNCHANGED <<t_conn, t_file, t_retrieved, t_error>>
    /\ UNCHANGED <<findVars, storeVars, taskVars, wordVars, pptVars>>

\* line 210: conn.connect, whatever the parameters are; it returns or raises
TextConnect ==
    /\ t_pc = "called"
    /\ \/ /\ t_conn' = "open"
          /\ t_pc' = "connected"
          /\ t_error' = ""
       \/ /\ t_conn' = "none"
          /\ t_pc' = "raised"
          /\ t_error' = "ConnectFault"
    /\ UNCHANGED <<t_key, t_creds, t_file, t_retrieved, t_response>>
    /\ UNCHANGED <<findVars, storeVars, taskVars, wordVars, pptVars>>

\* lines 214-215: retrieveFile writes the file into the new buffer and leaves
\* the position at its end, or raises; nothing catches the error and no
\* finally clause closes the connection
TextRetrieve ==
    /\ t_pc = "connected"
    /\ \/ \E data \in Contents :
            /\ t_file' = [data |-> data, pos |-> Len(data)]
            /\ t_retrieved' = TRUE
            /\ t_pc' = "retrieved"
            /\ t_error' = ""
       \/ /\ t_file' = t_file
          /\ t_retrieved' = FALSE
          /\ t_pc' = "raised"
          /\ t_error' = "RetrievalFault"
    /\ UNCHANGED <<t_key, t_creds, t_conn, t_response>>
    /\ UNCHANGED <<findVars, storeVars, taskVars, wordVars, pptVars>>

\* lines 216-222: rewind, dispatch on the extension, close, return. The test
\* of line 217 looks the bare name func_dict up from inside the method
TextDispatch ==
    /\ t_pc = "retrieved"
    /\ LET file == [t_file EXCEPT !.pos = 0]
           ext == ExtOf(t_key)
       IN  /\ t_file' = file
           /\ IF ~Resolves("func_dict", GetTextLocals)
              THEN /\ t_pc' = "raised"
                   /\ t_error' = "NameError"
                   /\ UNCHANGED <<t_conn, t_response>>
              ELSE IF ext \in DOMAIN func_dict
              THEN LET out == ApplyRule(func_dict[ext], file)
                   IN  IF out.raised # ""
                       THEN /\ t_pc' = "raised"
                            /\ t_error' = out.raised
                            /\ UNCHANGED <<t_conn, t_response>>
                       ELSE /\ t_response' = out.text
                            /\ t_conn' = "closed"
                            /\ t_pc' = "returned"
                            /\ t_error' = ""
              ELSE /\ t_response' = t_response
                   /\ t_conn' = "closed"
                   /\ t_pc' = "returned"
                   /\ t_error' = ""
    /\ UNCHANGED <<t_key, t_creds, t_retrieved>>
    /\ UNCHANGED <<findVars, storeVars, taskVars, wordVars, pptVars>>

TextNext ==
    \/ TextCall
    \/ TextConnect
    \/ TextRetrieve
    \/ TextDispatch


----------------------------------------------------------------------------
(* the local store *)

\* a path is the sequence of its parts as pathlib splits it: the parts of
\* "/etc/f" are <<"/", "etc", "f">>, those of "../f" are <<"..", "f">>

\* self._root_dir of the store, an existing directory (line 43)
RootDir == <<"/", "out">>

\* the keys a caller passes
StoreKeys ==
    { <<"f">>, <<"sub", "f">>, <<"..", "f">>, <<"/", "f">>, <<"..">> }

\* the values a caller writes: a str (its characters) or bytes (its bytes, in hex)
Values ==
    { [is_bytes |-> FALSE, data |-> <<"x">>],
      [is_bytes |-> FALSE, data |-> <<"x", "\r">>],
      [is_bytes |-> TRUE, data |-> <<"0xE9">>] }

\* the encoding argument of set and get; "" is None
Encodings == {"", "latin-1"}

\* line 42: self._encoding of a store made without an encoding
DefaultEncoding == "utf-8"

\* the names child is called with; "" is None
ChildNames == {"", "sub"}

\* the working directory of the process: the root "out" is relative to it
Cwd == <<"/">>

\* Path(s): pathlib drops the "." parts
PathOf(parts) == SelectSeq(parts, LAMBDA x : x # ".")

IsAbsolute(p) == Len(p) > 0 /\ p[1] = "/"

\* Path.parent: the path without its last part; the parent of "." is "." and
\* the parent of "/" is "/"
Parent(p) ==
    IF Len(p) = 0 \/ p = <<"/">> THEN p ELSE SubSeq(p, 1, Len(p) - 1)

\* Path.name: the last part, "" for "." and for "/"
Name(p) ==
    IF Len(p) = 0 \/ p = <<"/">> THEN "" ELSE p[Len(p)]

\* Path.__truediv__: an absolute right operand replaces the left one
Div(p, q) == IF IsAbsolute(q) THEN q ELSE p \o q

\* lines 275-277: join_path
join_path(file_path, file_name) ==
    LET key == PathOf(file_name)
        name == Name(key)
    IN  Div(Div(PathOf(file_path), Parent(key)), IF name = "" THEN <<>> ELSE <<name>>)

\* the location the operating system resolves an absolute path to: the names
\* from the file system's root, each ".." stepping to the parent directory;
\* [ok |-> FALSE] when a part that is stepped through is not a directory
RECURSIVE Walk(_, _, _)
Walk(at, rest, dirs) ==
    IF Len(rest) = 0 THEN [ok |-> TRUE, at |-> at]
    ELSE IF at \notin dirs THEN [ok |-> FALSE, at |-> at]
    ELSE IF rest[1] = ".."
         THEN Walk(IF Len(at) = 0 THEN at ELSE SubSeq(at, 1, Len(at) - 1), Tail(rest), dirs)
         ELSE Walk(Append(at, rest[1]), Tail(rest), dirs)

Resolve(p, dirs) == Walk(<<>>, Tail(p), dirs)

\* the location of the store's root
RootAt == Resolve(RootDir, {<<>>, <<"out">>}).at

\* a location lies inside the root when the root's location is a proper prefix of it
InsideRoot(at) ==
    /\ Len(at) > Len(RootAt)
    /\ SubSeq(at, 1, Len(RootAt)) = RootAt

\* "".join(list)
RECURSIVE join(_)
join(list) == IF Len(list) = 0 THEN <<>> ELSE Head(list) \o join(Tail(list))

\* the location of a store's root; roots hold no ".." part
RootLoc(root) == Tail(PathOf(root))

\* a location lies inside a root when the root's location is a proper prefix of it
InsideOf(rootAt, at) ==
    /\ Len(at) > Len(rootAt)
    /\ SubSeq(at, 1, Len(rootAt)) = rootAt

\* a remove that leaves the file in place
Without_Keep(files, at) == files

\* the file system without the file at a location
Without(files, at) == [q \in DOMAIN files \ {at} |-> files[q]]

\* the file system with a file's content set
With(files, at, value) ==
    [q \in DOMAIN files \cup {at} |-> IF q = at THEN value ELSE files[q]]

\* os.path.exists of a location
Exists(loc, files, dirs) == loc.ok /\ (loc.at \in DOMAIN files \/ loc.at \in dirs)

\* the location is a file
IsFile(loc, files) == loc.ok /\ loc.at \in DOMAIN files

\* str.encode of one character; both encodings have every character a caller writes
EncodeChar(c, encoding) ==
    CASE c = "x" -> <<"0x78">>
      [] c = "\r" -> <<"0x0D">>
      [] c = "\n" -> <<"0x0A">>
      [] c = "U+00E9" -> IF encoding = "utf-8" THEN <<"0xC3", "0xA9">> ELSE <<"0xE9">>

\* what a text file opened for writing with an encoding stores (newline=None
\* on POSIX writes "\n" as it is)
Encode(text, encoding) == join([i \in 1..Len(text) |-> EncodeChar(text[i], encoding)])

\* bytes.decode: the characters, or "UnicodeDecodeError"
RECURSIVE Decode(_, _)
Decode(data, encoding) ==
    IF Len(data) = 0 THEN <<>>
    ELSE LET b == Head(data)
             two == Len(data) >= 2 /\ b = "0xC3" /\ data[2] = "0xA9"
             one == CASE b = "0x78" -> "x"
                      [] b = "0x0D" -> "\r"
                      [] b = "0x0A" -> "\n"
                      [] b = "0xE9" -> IF encoding = "utf-8" THEN "UnicodeDecodeError" ELSE "U+00E9"
                      [] b = "0xC3" -> IF encoding = "utf-8" THEN "UnicodeDecodeError" ELSE "U+00C3"
                      [] b = "0xA9" -> IF encoding = "utf-8" THEN "UnicodeDecodeError" ELSE "U+00A9"
             rest == Decode(IF encoding = "utf-8" /\ two THEN Tail(Tail(data)) ELSE Tail(data),
                            encoding)
         IN  IF encoding = "utf-8" /\ two
             THEN IF rest = "UnicodeDecodeError" THEN rest ELSE <<"U+00E9">> \o rest
             ELSE IF one = "UnicodeDecodeError" \/ rest = "UnicodeDecodeError"
                  THEN "UnicodeDecodeError"
                  ELSE <<one>> \o rest

\* a text file opened for reading with newline=None gives "\r\n" and "\r" as "\n"
RECURSIVE UniversalNewlines(_)
UniversalNewlines(text) ==
    IF Len(text) = 0 THEN <<>>
    ELSE IF Head(text) = "\r"
         THEN <<"\n">> \o UniversalNewlines(IF Len(text) >= 2 /\ text[2] = "\n"
                                            THEN Tail(Tail(text)) ELSE Tail(text))
         ELSE <<Head(text)>> \o UniversalNewlines(Tail(text))

\* no value
NoValue == [is_bytes |-> FALSE, data |-> <<>>]

\* the detail of an operation that has none
NoDetail ==
    [value |-> NoValue, encoding |-> "", as_bytes |-> FALSE, out |-> NoValue,
     removed |-> {}, after |-> ""]

\* the operation that completed just before this one on the same store and key:
\* "set", "removed" or "absent" (a delete), else ""
After(store, key) ==
    IF s_store # store \/ s_key # key THEN ""
    ELSE IF s_op = "set" /\ s_result = "written" THEN "set"
    ELSE IF s_op = "delete" /\ s_result \in {"removed", "absent"} THEN s_result
    ELSE ""

\* lines 224-239: _read_file of a location that exists:
\* [raised, out]; opening a directory raises
read_file(loc, as_bytes, encoding, files) ==
    IF loc.at \notin DOMAIN files
    THEN [raised |-> "IsADirectoryError", out |-> NoValue]
    ELSE IF as_bytes
    THEN [raised |-> "", out |-> [is_bytes |-> TRUE, data |-> files[loc.at]]]
    ELSE LET enc == IF encoding = "" THEN DefaultEncoding ELSE encoding
             text == Decode(files[loc.at], enc)
         IN  IF text = "UnicodeDecodeError"
             THEN [raised |-> text, out |-> NoValue]
             ELSE [raised |-> "", out |-> [is_bytes |-> FALSE, data |-> UniversalNewlines(text)]]

\* line 43: the root exists; the directory "/" holds it
StoreInit ==
    /\ s_files = <<>>
    /\ s_dirs = {<<>>, <<"out">>}
    /\ s_op = "none"
    /\ s_key = <<>>
    /\ s_path = [ok |-> FALSE, at |-> <<>>]
    /\ s_result = "none"
    /\ s_stores = {RootDir}
    /\ s_store = RootDir
    /\ s_detail = NoDetail

\* lines 241-249: set opens join_path(root, key) for writing and writes value;
\* open raises when the directory of the file does not exist or the path is a directory
Set ==
    \E store \in s_stores, key \in StoreKeys, value \in Values, encoding \in Encodings :
        LET loc == Resolve(join_path(store, key), s_dirs)
            writable == /\ loc.ok
                        /\ Len(loc.at) > 0
                        /\ loc.at \notin s_dirs
                        /\ Parent(loc.at) \in s_dirs
            enc == IF encoding = "" THEN DefaultEncoding ELSE encoding
            stored == IF value.is_bytes THEN value.data ELSE Encode(value.data, enc)
        IN  /\ s_op' = "set"
            /\ s_store' = store
            /\ s_key' = key
            /\ s_path' = loc
            /\ s_detail' = [NoDetail EXCEPT !.value = value, !.encoding = encoding]
            /\ IF writable
               THEN /\ s_files' = With(s_files, loc.at, stored)
                    /\ s_result' = "written"
               ELSE /\ s_files' = s_files
                    /\ s_result' = "raised"
            /\ UNCHANGED <<s_dirs, s_stores>>
            /\ UNCHANGED <<findVars, textVars, taskVars, wordVars, pptVars>>

\* lines 251-253: has
Has ==
    \E store \in s_stores, key \in StoreKeys :
        LET loc == Resolve(join_path(store, key), s_dirs)
        IN  /\ s_op' = "has"
            /\ s_store' = store
            /\ s_key' = key
            /\ s_path' = loc
            /\ s_detail' = [NoDetail EXCEPT !.after = After(store, key)]
            /\ s_result' = IF Exists(loc, s_files, s_dirs) THEN "true" ELSE "false"
            /\ UNCHANGED <<s_files, s_dirs, s_stores>>
            /\ UNCHANGED <<findVars, textVars, taskVars, wordVars, pptVars>>

\* lines 255-258: delete, run to its end with no other task between its two
\* awaits: it removes the file when has(key); os.remove of a directory raises
Delete ==
    \E store \in s_stores, key \in StoreKeys :
        LET loc == Resolve(join_path(store, key), s_dirs)
        IN  /\ s_op' = "delete"
            /\ s_store' = store
            /\ s_key' = key
            /\ s_path' = loc
            /\ s_detail' = NoDetail
            /\ IF ~Exists(loc, s_files, s_dirs)
               THEN /\ s_files' = s_files
                    /\ s_result' = "absent"
               ELSE IF loc.at \in s_dirs
               THEN /\ s_files' = s_files
                    /\ s_result' = "raised"
               ELSE /\ s_files' = Without(s_files, loc.at)
                    /\ s_result' = "removed"
            /\ UNCHANGED <<s_dirs, s_stores>>
            /\ UNCHANGED <<findVars, textVars, taskVars, wordVars, pptVars>>

\* a lookup that tries the standalone path first
get_source_AloneFirst(rooted, alone, files, dirs) ==
    IF Exists(alone, files, dirs) THEN "alone"
    ELSE IF Exists(rooted, files, dirs) THEN "rooted"
    ELSE "none"

\* lines 180-187: which path get reads
get_source(rooted, alone, files, dirs) ==
    IF Exists(rooted, files, dirs) THEN "rooted"
    ELSE IF Exists(alone, files, dirs) THEN "alone"
    ELSE "none"

\* lines 174-187: get
Get ==
    \E store \in s_stores, key \in StoreKeys, as_bytes \in BOOLEAN, encoding \in Encodings :
        LET rooted == Resolve(join_path(store, key), s_dirs)
            alone == Resolve(Div(Cwd, PathOf(key)), s_dirs)
            source == get_source(rooted, alone, s_files, s_dirs)
            loc == IF source = "alone" THEN alone ELSE rooted
            got == read_file(loc, as_bytes, encoding, s_files)
            \* the call before was the set of this key, in this mode and encoding
            matching == /\ After(store, key) = "set"
                        /\ s_detail.value.is_bytes = as_bytes
                        /\ s_detail.encoding = encoding
            asked == [NoDetail EXCEPT !.as_bytes = as_bytes,
                                      !.encoding = encoding,
                                      !.after = IF matching THEN "set" ELSE "",
                                      !.value = IF matching THEN s_detail.value ELSE NoValue]
        IN  /\ s_op' = "get"
            /\ s_store' = store
            /\ s_key' = key
            /\ s_path' = loc
            /\ IF source = "none"
               THEN /\ s_result' = "None"
                    /\ s_detail' = asked
               ELSE /\ s_result' = IF got.raised = "" THEN "content" ELSE "raised"
                    /\ s_detail' = [asked EXCEPT !.out = got.out]
            /\ UNCHANGED <<s_files, s_dirs, s_stores>>
            /\ UNCHANGED <<findVars, textVars, taskVars, wordVars, pptVars>>

\* a clear that unlinks the files of the root and leaves its directories
cleared_files_FilesOnly(files, rootAt) ==
    [q \in {x \in DOMAIN files : Parent(x) # rootAt} |-> files[q]]

\* lines 262-266: the files left when every entry of the root is removed,
\* directories with all they hold
cleared_files(files, rootAt) ==
    [q \in {x \in DOMAIN files : ~InsideOf(rootAt, x)} |-> files[q]]

\* lines 262-264: the directories left
cleared_dirs(dirs, rootAt) == {x \in dirs : ~InsideOf(rootAt, x)}

\* lines 260-266: clear; glob of a root that does not exist finds nothing
Clear ==
    \E store \in s_stores :
        LET rootAt == RootLoc(store)
        IN  /\ s_op' = "clear"
            /\ s_store' = store
            /\ s_key' = <<>>
            /\ s_path' = [ok |-> rootAt \in s_dirs, at |-> rootAt]
            /\ s_result' = "cleared"
            /\ s_detail' = [NoDetail EXCEPT
                              !.removed = {x \in DOMAIN s_files : InsideOf(rootAt, x)}]
            /\ s_files' = cleared_files(s_files, rootAt)
            /\ s_dirs' = cleared_dirs(s_dirs, rootAt)
            /\ UNCHANGED s_stores
            /\ UNCHANGED <<findVars, textVars, taskVars, wordVars, pptVars>>

\* a child rooted where its parent is
child_root_Same(root, name) == root

\* line 272: Path(self._root_dir) / Path(name)
child_root(root, name) == Div(PathOf(root), PathOf(<<name>>))

\* line 43: Path.mkdir(parents=True, exist_ok=True): the directory and the
\* directories above it
mkdir(dirs, at) == dirs \cup {SubSeq(at, 1, n) : n \in 0..Len(at)}

\* lines 268-272 and 39-43: child of the store made first; with a name it
\* constructs a store, which makes its root directory
Child ==
    \E name \in ChildNames :
        LET root == child_root(RootDir, name)
        IN  /\ s_op' = "child"
            /\ s_store' = RootDir
            /\ s_key' = IF name = "" THEN <<>> ELSE <<name>>
            /\ s_detail' = NoDetail
            /\ IF name = ""
               THEN /\ s_result' = "self"
                    /\ s_path' = [ok |-> TRUE, at |-> RootLoc(RootDir)]
                    /\ UNCHANGED <<s_stores, s_dirs>>
               ELSE /\ s_result' = "store"
                    /\ s_path' = [ok |-> TRUE, at |-> RootLoc(root)]
                    /\ s_stores' = s_stores \cup {root}
                    /\ s_dirs' = mkdir(s_dirs, RootLoc(root))
            /\ UNCHANGED s_files
            /\ UNCHANGED <<findVars, textVars, taskVars, wordVars, pptVars>>

StoreNext ==
    \/ Set
    \/ Has
    \/ Delete
    \/ Get
    \/ Clear
    \/ Child

----------------------------------------------------------------------------
(* the extraction rules for docx and pptx *)

\* the characters the rules remove; the full-width space is written by its code point
HalfSpace == " "
FullSpace == "U+3000"
Newline == "\n"

\* a paragraph text holds at most this many characters
MaxText == 2
\* a document holds at most this many paragraphs
MaxParagraphs == 2
\* a slide holds at most this many shapes
MaxShapes == 2
\* a presentation holds at most this many slides
MaxSlides == 2

\* the documents docx.Document(file) can give: paragraphs with a text each
Documents ==
    LET texts == SeqsUpTo({"a", HalfSpace, FullSpace}, MaxText)
    IN  SeqsUpTo({[text |-> t] : t \in texts}, MaxParagraphs)

\* the texts of the shapes that have a text frame
ShapeTexts ==
    { <<"a", Newline, "b", HalfSpace, HalfSpace, "c", FullSpace, "d">>,
      <<Newline, "x", HalfSpace>> }

\* the presentations pptx.Presentation(file) can give: slides with their
\* shapes; a shape without a text frame (a picture) has no text, and reading
\* its text raises AttributeError, written as a marker
Presentations ==
    LET shapes == {[has_text_frame |-> TRUE, text |-> t] : t \in ShapeTexts}
                  \cup {[has_text_frame |-> FALSE, text |-> <<"AttributeError">>]}
    IN  SeqsUpTo({[shapes |-> sh] : sh \in SeqsUpTo(shapes, MaxShapes)}, MaxSlides)

\* str.replace(old, "") for a one-character old
replace(text, old) == SelectSeq(text, LAMBDA c : c # old)

\* a rule that leaves the full-width space in
get_text_from_word_HalfOnly(paragraphs) ==
    replace(join([i \in 1..Len(paragraphs) |-> paragraphs[i].text]), HalfSpace)

\* lines 80-83: get_text_from_word on the parsed document
get_text_from_word(paragraphs) ==
    LET text_list == [i \in 1..Len(paragraphs) |-> paragraphs[i].text]
        text == join(text_list)
    IN  replace(replace(text, HalfSpace), FullSpace)

\* a loop that reads the text of every shape, text frame or not
RECURSIVE shapes_text_NoFrameTest(_)
shapes_text_NoFrameTest(shapes) ==
    IF Len(shapes) = 0 THEN <<>>
    ELSE replace(replace(replace(Head(shapes).text, Newline), HalfSpace), FullSpace)
         \o shapes_text_NoFrameTest(Tail(shapes))

\* lines 70-73: the inner loop over sld.shapes
RECURSIVE shapes_text(_)
shapes_text(shapes) ==
    IF Len(shapes) = 0 THEN <<>>
    ELSE LET shp == Head(shapes)
             add == IF shp.has_text_frame
                    THEN replace(replace(replace(replace(shp.text, Newline), Newline),
                                         HalfSpace), FullSpace)
                    ELSE <<>>
         IN  add \o shapes_text(Tail(shapes))

\* lines 68-74: get_text_from_powerpoint on the parsed presentation
RECURSIVE get_text_from_powerpoint(_)
get_text_from_powerpoint(slides) ==
    IF Len(slides) = 0 THEN <<>>
    ELSE shapes_text(Head(slides).shapes) \o get_text_from_powerpoint(Tail(slides))

WordInit ==
    /\ w_pc = "idle"
    /\ w_paragraphs = <<>>
    /\ w_output = <<>>

\* line 79: docx.Document(file)
WordParse ==
    /\ w_pc = "idle"
    /\ \E doc \in Documents : w_paragraphs' = doc
    /\ w_pc' = "parsed"
    /\ UNCHANGED w_output
    /\ UNCHANGED <<findVars, textVars, storeVars, taskVars, pptVars>>

\* lines 80-83
WordReturn ==
    /\ w_pc = "parsed"
    /\ w_output' = get_text_from_word(w_paragraphs)
    /\ w_pc' = "returned"
    /\ UNCHANGED w_paragraphs
    /\ UNCHANGED <<findVars, textVars, storeVars, taskVars, pptVars>>

WordNext ==
    \/ WordParse
    \/ WordReturn

PptInit ==
    /\ p_pc = "idle"
    /\ p_slides = <<>>
    /\ p_output = <<>>

\* line 67: pptx.Presentation(file)
PptParse ==
    /\ p_pc = "idle"
    /\ \E prs \in Presentations : p_slides' = prs
    /\ p_pc' = "parsed"
    /\ UNCHANGED p_output
    /\ UNCHANGED <<findVars, textVars, storeVars, taskVars, wordVars>>

\* lines 68-74
PptReturn ==
    /\ p_pc = "parsed"
    /\ p_output' = get_text_from_powerpoint(p_slides)
    /\ p_pc' = "returned"
    /\ UNCHANGED p_slides
    /\ UNCHANGED <<findVars, textVars, storeVars, taskVars, wordVars>>

PptNext ==
    \/ PptParse
    \/ PptReturn

----------------------------------------------------------------------------
(* delete as concurrent tasks of one event loop: a task runs until its next
   await, where another task may run *)

\* the tasks that call delete on the store made first
Tasks == {1, 2}

\* the keys the tasks use
TaskKeys == {<<"f">>, <<"..", "f">>}

\* what the operations of the single-caller part recorded stays as it is
opVars == <<s_op, s_key, s_path, s_result, s_stores, s_store, s_detail>>

TaskInit ==
    /\ k_pc = [t \in Tasks |-> "idle"]
    /\ k_key = [t \in Tasks |-> <<>>]

\* line 255: a task calls delete(key)
TaskCall(t) ==
    \E key \in TaskKeys :
        /\ k_pc[t] \in {"idle", "returned", "raised"}
        /\ k_pc' = [k_pc EXCEPT ![t] = "has"]
        /\ k_key' = [k_key EXCEPT ![t] = key]
        /\ UNCHANGED <<s_files, s_dirs, opVars>>
        /\ UNCHANGED <<findVars, textVars, wordVars, pptVars>>

\* lines 257 and 253: await self.has(key) answers; delete goes on to the
\* remove or returns
TaskHas(t) ==
    LET loc == Resolve(join_path(RootDir, k_key[t]), s_dirs)
    IN  /\ k_pc[t] = "has"
        /\ k_pc' = [k_pc EXCEPT ![t] = IF Exists(loc, s_files, s_dirs)
                                       THEN "remove" ELSE "returned"]
        /\ UNCHANGED <<k_key, s_files, s_dirs, opVars>>
        /\ UNCHANGED <<findVars, textVars, wordVars, pptVars>>

\* line 258: await remove(path): os.remove raises FileNotFoundError when the
\* file is no longer there
TaskRemove(t) ==
    LET loc == Resolve(join_path(RootDir, k_key[t]), s_dirs)
    IN  /\ k_pc[t] = "remove"
        /\ IF IsFile(loc, s_files)
           THEN /\ s_files' = Without(s_files, loc.at)
                /\ k_pc' = [k_pc EXCEPT ![t] = "returned"]
           ELSE /\ s_files' = s_files
                /\ k_pc' = [k_pc EXCEPT ![t] = "raised"]
        /\ UNCHANGED <<k_key, s_dirs, opVars>>
        /\ UNCHANGED <<findVars, textVars, wordVars, pptVars>>

\* lines 241-249: the write of a set by another caller lands
TaskSet ==
    \E key \in TaskKeys, value \in Values :
        LET loc == Resolve(join_path(RootDir, key), s_dirs)
            stored == IF value.is_bytes THEN value.data
                      ELSE Encode(value.data, DefaultEncoding)
        IN  /\ loc.ok
            /\ loc.at \notin s_dirs
            /\ Parent(loc.at) \in s_dirs
            /\ s_files' = With(s_files, loc.at, stored)
            /\ UNCHANGED <<k_pc, k_key, s_dirs, opVars>>
            /\ UNCHANGED <<findVars, textVars, wordVars, pptVars>>

\* lines 260-266: clear has no await: it runs whole between two steps of the
\* tasks
TaskClear ==
    /\ s_files' = cleared_files(s_files, RootLoc(RootDir))
    /\ s_dirs' = cleared_dirs(s_dirs, RootLoc(RootDir))
    /\ UNCHANGED <<k_pc, k_key, opVars>>
    /\ UNCHANGED <<findVars, textVars, wordVars, pptVars>>

TaskNext ==
    \/ \E t \in Tasks : TaskCall(t)
    \/ \E t \in Tasks : TaskHas(t)
    \/ \E t \in Tasks : TaskRemove(t)
    \/ TaskSet
    \/ TaskClear

----------------------------------------------------------------------------
(* specifications *)

Init == FindInit /\ TextInit /\ StoreInit /\ TaskInit /\ WordInit /\ PptInit

\* the parts share no state: each is checked in its own specification
SpecFind == Init /\ [][FindNext]_vars
SpecGetText == Init /\ [][TextNext]_vars
SpecStore == Init /\ [][StoreNext]_vars
SpecWord == Init /\ [][WordNext]_vars
SpecPowerpoint == Init /\ [][PptNext]_vars
SpecTasks == Init /\ [][TaskNext]_vars

Next == FindNext \/ TextNext \/ StoreNext \/ WordNext \/ PptNext \/ TaskNext
Spec == Init /\ [][Next]_vars

----------------------------------------------------------------------------
(* claims about getText *)

TextEnded == t_pc \in {"returned", "raised"}

\* C1: every getText call that opened a session has closed it when the call
\* ends, by a return or by an error of the retrieval or of the extraction rule
C1_SessionClosedWhenCallEnds == TextEnded => t_conn # "open"

\* C7: a getText call whose file was retrieved and whose key has no
\* recognised extension ends by returning the empty result, not by an error
C7_UnknownExtensionReturnsEmpty ==
    (TextEnded /\ t_retrieved /\ ExtOf(t_key) \notin DOMAIN func_dict)
        => (t_pc = "returned" /\ t_response = EmptyResponse)

\* C8: a getText call whose file was retrieved and whose key has a recognised
\* extension (lower-cased, without the dot) returns the output of the rule
\* func_dict maps the extension to, applied to the rewound buffer
C8_RecognisedExtensionReturnsRuleOutput ==
    (TextEnded /\ t_retrieved /\ ExtOf(t_key) \in DOMAIN func_dict)
        => /\ t_pc = "returned"
           /\ t_response =
                ApplyRule(func_dict[ExtOf(t_key)], [t_file EXCEPT !.pos = 0]).text

----------------------------------------------------------------------------
(* claims about find *)

\* the generator is past line 162
PastClose == f_pc \in {"loop", "suspended", "done"} \/ Len(f_yielded) > 0

\* C2: the session of a find is closed before the first element is handed to
\* the consumer and stays closed, with and without a raised listing; a
\* consumer that abandons the sequence leaves no session open
C2_SessionClosedBeforeFirstItem ==
    /\ [](PastClose => f_conn = "closed")
    /\ [](f_pc = "abandoned" => f_conn # "open")
    /\ [][f_conn = "closed" => f_conn' = "closed"]_vars

C2_Witness ==
    /\ f_pc = "abandoned"
    /\ Len(f_yielded) = 1
    /\ f_conn = "closed"
    /\ \E k \in 1..Len(patterns) : f_results[k].status = "raised"

\* C3: when listPath raises for one pattern, every later pattern is still
\* listed and find does not fail
C3_LaterPatternsStillListed ==
    \A k \in 1..Len(patterns) :
        (f_results[k].status = "raised" /\ f_pc # "list")
            => /\ f_pc # "raised"
               /\ \A j \in (k + 1)..Len(patterns) : f_results[j].status = "returned"

\* the file names the listings before pattern k returned, in order
RECURSIVE ListedBefore(_)
ListedBefore(k) ==
    IF k <= 1 THEN <<>>
    ELSE ListedBefore(k - 1)
         \o [i \in 1..Len(f_results[k - 1].files) |-> f_results[k - 1].files[i].filename]

\* C4: when listPath raises at the k-th pattern the error does not reach the
\* consumer; find yields the file names of the patterns listed before k, in
\* the order collected, and ends normally (all of them when max_count <= 0)
C4_FailureYieldsCollected ==
    \A k \in 1..Len(patterns) :
        f_results[k].status = "raised"
            => /\ f_pc # "raised"
               /\ PastClose => f_all_files = ListedBefore(k)
               /\ Len(f_yielded) <= Len(ListedBefore(k))
               /\ \A i \in 1..Len(f_yielded) :
                    f_yielded[i] = <<ListedBefore(k)[i], EmptyDict>>
               /\ (f_pc = "done" /\ f_max_count <= 0)
                    => Len(f_yielded) = Len(ListedBefore(k))

C4_Witness ==
    /\ f_pc = "done"
    /\ f_max_count <= 0
    /\ f_results[3].status = "raised"
    /\ Len(f_results[1].files) = 1
    /\ Len(f_results[2].files) = 1
    /\ Len(f_yielded) = 2

\* C5: a finished find over m discovered files has yielded min(max_count, m)
\* elements when max_count > 0 and all m when max_count <= 0; it never yields
\* more than max_count > 0 elements
C5_MaxCountLimitsYield ==
    /\ f_max_count > 0 => Len(f_yielded) <= f_max_count
    /\ f_pc = "done" =>
         Len(f_yielded) = IF f_max_count > 0
                          THEN Min(f_max_count, Len(f_all_files))
                          ELSE Len(f_all_files)

C5_Witness ==
    /\ f_pc = "done"
    /\ f_max_count = 1
    /\ Len(f_all_files) = 2
    /\ Len(f_yielded) = 1

\* C6: with a progress callback, a finished find has reported once per
\* yielded element, the last one included when max_count is reached, and the
\* i-th report carries loaded = i, filtered = 0, total = the files discovered
C6_OneReportPerYieldedItem ==
    (f_progress /\ f_pc = "done")
        => /\ Len(f_reports) = Len(f_yielded)
           /\ \A i \in 1..Len(f_reports) :
                /\ f_reports[i].loaded = i
                /\ f_reports[i].filtered = 0
                /\ f_reports[i].total_items = Len(f_all_files)

\* C9: a find or getText call made without the remote parameters is served
\* by the local store: it opens no remote session and does not end with a
\* connection error
C9_NoCredentialsNoSession ==
    /\ ~f_creds => (f_conn = "none" /\ f_pc # "raised")
    /\ ~t_creds => (t_conn = "none" /\ t_pc # "raised")

----------------------------------------------------------------------------
(* claims about the local store *)

\* C10: the location set, has or delete acts on lies inside the store's
\* root, for every key
C10_KeyResolvesInsideRoot ==
    (s_op \in {"set", "has", "delete"} /\ s_path.ok) => InsideOf(RootLoc(s_store), s_path.at)

\* C11: the root directory of the store exists whenever get, set, has or
\* delete is attempted on it
C11_RootExistsWhenOperating ==
    s_op \in {"get", "set", "has", "delete"} => RootLoc(s_store) \in s_dirs

\* C12: a get right after the set of the same key on the same store, in the
\* matching mode and with the same encoding, returns the value written
C12_SetThenGetRoundTrip ==
    (s_op = "get" /\ s_detail.after = "set") =>
        /\ s_result = "content"
        /\ s_detail.out = s_detail.value

\* C13: has(key) right after a set(key, v) that completed is true, and right
\* after a delete(key) that completed is false
C13_HasAfterSetAndDelete ==
    s_op = "has" =>
        /\ s_detail.after = "set" => s_result = "true"
        /\ s_detail.after \in {"removed", "absent"} => s_result = "false"

\* a has came right after a delete that removed the entry, and said false
C13_Witness ==
    /\ s_op = "has"
    /\ s_detail.after = "removed"
    /\ s_result = "false"

\* C14: after clear() no entry is left under the root, so has is false for
\* every key written under it, in the root or through a child store
C14_ClearLeavesNothingUnderRoot ==
    s_op = "clear" =>
        /\ s_detail.removed \cap DOMAIN s_files = {}
        /\ \A x \in DOMAIN s_files \cup s_dirs : ~InsideOf(RootLoc(s_store), x)
        /\ \A store \in s_stores, key \in StoreKeys :
               LET loc == Resolve(join_path(store, key), s_dirs)
               IN  (loc.ok /\ InsideOf(RootLoc(s_store), loc.at)) =>
                       ~Exists(loc, s_files, s_dirs)

\* the root store was cleared of an entry of its own and one written through
\* the child
C14_Witness ==
    /\ s_op = "clear"
    /\ s_store = RootDir
    /\ {<<"out", "f">>, <<"out", "sub", "f">>} \subseteq s_detail.removed

\* child(name) gives the store rooted at root/name, child(None) the store itself
C15_ChildRoot ==
    s_op = "child" =>
        IF s_key = <<>>
        THEN s_result = "self" /\ s_path.at = <<"out">>
        ELSE /\ s_result = "store"
             /\ s_path.at = <<"out", "sub">>
             /\ <<"/", "out", "sub">> \in s_stores
             /\ <<"out", "sub">> \in s_dirs

\* a set("f") on the child "sub" writes root/sub/f at most, and writes it
\* when it comes right after child("sub")
C15_ChildSet ==
    (s_op' = "set" /\ s_store' = <<"/", "out", "sub">> /\ s_key' = <<"f">>) =>
        /\ s_path'.ok => s_path'.at = <<"out", "sub", "f">>
        /\ DOMAIN s_files' \subseteq DOMAIN s_files \cup {<<"out", "sub", "f">>}
        /\ \A q \in DOMAIN s_files \ {<<"out", "sub", "f">>} :
               q \in DOMAIN s_files' /\ s_files'[q] = s_files[q]
        /\ (s_op = "child" /\ s_key = <<"sub">>) =>
               /\ s_result' = "written"
               /\ s_path' = [ok |-> TRUE, at |-> <<"out", "sub", "f">>]
               /\ <<"out", "sub", "f">> \in DOMAIN s_files'

\* C15: child(name) returns a store rooted at root/name and child(None) the
\* same store; set("f") on child("sub") creates root/sub/f and leaves the
\* parent's root/f as it was
C15_ChildWritesUnderItsOwnRoot ==
    /\ []C15_ChildRoot
    /\ [][C15_ChildSet]_vars

\* the child wrote its f while the parent held a different f
C15_Witness ==
    /\ s_op = "set"
    /\ s_store = <<"/", "out", "sub">>
    /\ s_key = <<"f">>
    /\ s_result = "written"
    /\ <<"out", "f">> \in DOMAIN s_files
    /\ s_files[<<"out", "f">>] # s_files[<<"out", "sub", "f">>]

\* C16: get reads the entry under the root when it exists, else the
\* standalone path when it exists, else returns None; it raises only on an
\* entry that exists
C16_GetLookupOrder ==
    s_op = "get" =>
        LET rooted == Resolve(join_path(s_store, s_key), s_dirs)
            alone == Resolve(Div(Cwd, PathOf(s_key)), s_dirs)
            stored == s_files[s_path.at]
        IN  /\ IF Exists(rooted, s_files, s_dirs)
               THEN s_path = rooted /\ s_result # "None"
               ELSE IF Exists(alone, s_files, s_dirs)
               THEN s_path = alone /\ s_result # "None"
               ELSE s_result = "None"
            /\ s_result = "raised" =>
                   \/ s_path.at \in s_dirs
                   \/ IsFile(s_path, s_files) /\ ~s_detail.as_bytes
            /\ (s_result = "content" /\ s_detail.as_bytes) =>
                   s_detail.out = [is_bytes |-> TRUE, data |-> stored]
            /\ (s_result = "content" /\ ~s_detail.as_bytes) =>
                   /\ ~s_detail.out.is_bytes
                   /\ Len(s_detail.out.data) <= Len(stored)

\* both paths held a file with different content and get returned the one
\* under the root
C16_Witness ==
    /\ s_op = "get"
    /\ s_store = RootDir
    /\ s_key = <<"f">>
    /\ s_result = "content"
    /\ s_detail.as_bytes
    /\ {<<"f">>, <<"out", "f">>} \subseteq DOMAIN s_files
    /\ s_files[<<"f">>] # s_files[<<"out", "f">>]
    /\ s_detail.out.data = s_files[<<"out", "f">>]

----------------------------------------------------------------------------
(* claims about concurrent deletes *)

\* C18: under every interleaving of concurrent delete tasks with each other
\* and with clear, every delete finishes without an error
C18_ConcurrentDeletesRaiseNothing ==
    \A t \in Tasks : k_pc[t] # "raised"

----------------------------------------------------------------------------
(* claims about the extraction rules *)

\* the paragraph texts of the document, one after the other, no separator
RECURSIVE ParagraphsConcat(_)
ParagraphsConcat(paragraphs) ==
    IF Len(paragraphs) = 0 THEN <<>>
    ELSE Head(paragraphs).text \o ParagraphsConcat(Tail(paragraphs))

\* a text without the characters of a set
Strip(text, chars) == SelectSeq(text, LAMBDA c : c \notin chars)

\* C19 as stated: the docx rule returns exactly the concatenation of the
\* paragraph texts in document order, texts with spaces included
C19_WordReturnsPlainConcatenation ==
    w_pc = "returned" => w_output = ParagraphsConcat(w_paragraphs)

\* C19 amended: the docx rule returns the concatenation, with no separator,
\* of the paragraph texts in document order, each without its half-width and
\* full-width spaces
C19_WordReturnsConcatenationWithoutSpaces ==
    w_pc = "returned" =>
        w_output = ParagraphsConcat([i \in 1..Len(w_paragraphs) |->
                        [text |-> Strip(w_paragraphs[i].text, {HalfSpace, FullSpace})]])

C19_Witness ==
    /\ w_pc = "returned"
    /\ Len(w_paragraphs) = 2
    /\ w_paragraphs[1].text = <<"a", FullSpace>>
    /\ w_paragraphs[2].text = <<HalfSpace, "a">>
    /\ w_output = <<"a", "a">>

\* the texts of the shapes with a text frame, slide by slide, shape by shape
RECURSIVE FrameTexts(_)
FrameTexts(slides) ==
    IF Len(slides) = 0 THEN <<>>
    ELSE LET sh == Head(slides).shapes
             framed == SelectSeq(sh, LAMBDA x : x.has_text_frame)
         IN  join([i \in 1..Len(framed) |-> framed[i].text]) \o FrameTexts(Tail(slides))

\* C20: the pptx rule returns the texts of the shapes with a text frame, in
\* slide order and shape order, without newlines, half-width and full-width
\* spaces; shapes without a text frame add nothing, and none of the three
\* characters is in the output
C20_PowerpointStripsAndConcatenates ==
    p_pc = "returned" =>
        /\ p_output = Strip(FrameTexts(p_slides), {Newline, HalfSpace, FullSpace})
        /\ \A i \in 1..Len(p_output) : p_output[i] \notin {Newline, HalfSpace, FullSpace}

C20_Witness ==
    /\ p_pc = "returned"
    /\ Len(p_slides) = 2
    /\ Len(p_slides[1].shapes) = 2
    /\ ~p_slides[1].shapes[1].has_text_frame
    /\ p_slides[1].shapes[2].text = <<"a", Newline, "b", HalfSpace, HalfSpace, "c", FullSpace, "d">>
    /\ Len(p_slides[2].shapes) = 1
    /\ p_slides[2].shapes[1].text = <<Newline, "x", HalfSpace>>
    /\ p_output = <<"a", "b", "c", "d", "x">>

\* the order of the patterns and what C17 says of a find whose listings all return
\* (C17): when every listing returns, find produces the nine listings one after
\* the other in the order *.docx, *.pdf, *.xlsx, *.xlsm, *.pptx, *.txt, *.html,
\* *.md, *.csv, each listing in its own order with its duplicates, every
\* element with empty metadata; nine listPath calls and one session are made
C17_Order == <<"docx", "pdf", "xlsx", "xlsm", "pptx", "txt", "html", "md", "csv">>

C17_AllListed == \A k \in 1..Len(f_results) : f_results[k].status = "returned"

C17_Sequence ==
    (PastClose /\ C17_AllListed) =>
        /\ \A k \in 1..9 : \A i \in 1..Len(f_results[k].files) :
                f_results[k].files[i].filename[2] = C17_Order[k]
        /\ f_all_files = ListedBefore(10)
        /\ Len(f_yielded) <= Len(f_all_files)
        /\ \A i \in 1..Len(f_yielded) : f_yielded[i] = <<ListedBefore(10)[i], EmptyDict>>
        /\ (f_pc = "done" /\ f_max_count <= 0) => Len(f_yielded) = Len(f_all_files)

\* C17: when every listing returns, the sequence find produces is the nine
\* listings one after the other in the fixed pattern order, order and
\* duplicates of each listing kept, each element (fileName, {}); nine listPath
\* calls are made and the session, once closed, is not opened again
C17_ConcatenationInPatternOrder ==
    /\ [](Len(f_results) = 9)
    /\ []C17_Sequence
    /\ [][f_conn' = "open" => f_conn \in {"none", "open"}]_vars

C17_Witness ==
    /\ f_pc = "done"
    /\ f_max_count <= 0
    /\ \A k \in 1..Len(f_results) : f_results[k].status = "returned"
    /\ f_results[2].files = <<[filename |-> <<"b", "pdf">>], [filename |-> <<"b", "pdf">>]>>
    /\ Len(f_yielded) = 2

=============================================================================
